---- MODULE Spec2Model ----
(***************************************************************************)
(* Model of the clip-splitting engine of src/main.py: the worker thread    *)
(* SplitWorker.run (ffmpeg check, probe, clip arithmetic, sequential       *)
(* per-clip transcoder calls, cooperative stop flag, terminal events) and  *)
(* the front-end handler VideoSplitterApp.start_splitting that validates   *)
(* a request and starts the worker.                                        *)
(*                                                                         *)
(* Time is counted in ticks of 1/Scale second, so that the float duration  *)
(* reported by ffprobe can be fractional while clip length and overlap     *)
(* (spin-box integers) are whole seconds.  Float rounding is not modelled: *)
(* quotients are exact.                                                    *)
(***************************************************************************)
EXTENDS Integers, Sequences, FiniteSets, TLC

\* ---- bounds of the model ----
Scale == 2          \* ticks per second
MaxDSec == 6        \* longest probed duration, seconds
MaxL == 5           \* longest clip length, seconds
MaxO == 3           \* largest overlap, seconds
MaxN == 5           \* largest requested clip count

\* ---- program constants ----
MinClipSeconds == 1     \* clips shorter than this are skipped
MinDurationSpin == 1    \* duration_input.setRange(1, 3600)
MinClipsSpin == 1       \* num_clips_input.setRange(1, 1000)
MaxOverlapSpin == 60    \* overlap_input.setRange(0, 60)

VARIABLES
    pc,              \* position of the handler / worker thread
    via,             \* "none" | "ui" | "direct": how the worker was started
    clip_duration,   \* requested clip length, seconds
    num_clips,       \* requested clip count
    overlap,         \* requested overlap, seconds
    should_stop,     \* SplitWorker.should_stop
    total_duration,  \* video_info['duration'], ticks
    actual_clips,    \* local of run()
    i,               \* loop index of run()
    clips_created,   \* local of run()
    cur,             \* window of the transcoder call in flight
    events,          \* signals emitted by the worker, in order
    procs,           \* subprocesses spawned, in order
    dirCreated,      \* os.makedirs(output_dir) has succeeded
    files,           \* clip numbers whose output file passed verification
    dialogs,         \* message boxes shown by start_splitting
    stop_at,         \* history: where the worker stood when stop() was called
    probe_out,       \* what ffprobe answered (duration in ticks, r_frame_rate)
    controls_enabled,\* front-end: state set by set_controls_enabled
    ui_seen          \* front-end: number of worker signals already handled

vars == <<pc, via, clip_duration, num_clips, overlap, should_stop,
          total_duration, actual_clips, i, clips_created, cur, events,
          procs, dirCreated, files, dialogs, stop_at, probe_out,
          controls_enabled, ui_seen>>

uiVars == <<controls_enabled, ui_seen>>

workerVars == <<clip_duration, num_clips, overlap>>

\* ---- helpers ----
Min(a, b) == IF a < b THEN a ELSE b
Max(a, b) == IF a > b THEN a ELSE b

\* Python int(a / b) for a >= 0, b # 0: truncation toward zero
IntDiv(a, b) == IF b > 0 THEN a \div b ELSE 0 - (a \div (0 - b))

Ev(t, m, v) == [type |-> t, msg |-> m, val |-> v]
Proc(c, n, s, e) == [cmd |-> c, index |-> n, start |-> s, end |-> e]
NoWindow == [index |-> 0, start |-> 0, end |-> 0]

\* ---- clip arithmetic of run() ----

\* ActualClips without the extra clip for the remainder (lines 143-144
\* left out); tests C6_NoOverlapPlan
ActualClips_floor(d, L, N, O) ==
    IF O > 0
    THEN Min(N, IntDiv(d + O * Scale, (L - O) * Scale))
    ELSE Min(N, d \div (L * Scale))

\* lines 137-145: the candidate clip count (d in ticks; L, N, O as given).
\* Undefined (ZeroDivisionError) when O > 0 and L = O.
ActualClips(d, L, N, O) ==
    IF O > 0
    THEN Min(N, IntDiv(d + O * Scale, (L - O) * Scale))
    ELSE LET max_possible_clips == d \div (L * Scale)
         IN  Min(N, IF d % (L * Scale) > 0
                    THEN max_possible_clips + 1
                    ELSE max_possible_clips)

\* ClipStart with the stride not reduced by the overlap; tests
\* C7_OverlapPlan
ClipStart_noOverlap(k, L, O) == k * L * Scale

\* lines 160-163: start of the window at loop index k, ticks
ClipStart(k, L, O) ==
    IF O > 0 THEN Max(0, k * (L - O)) * Scale ELSE k * L * Scale

\* line 165
ClipEnd(s, L, d) == Min(s + L * Scale, d)

\* TooShort with the one-second floor left out; tests C8_WindowInvariants
TooShort_never(s, e) == FALSE

\* lines 170-171: the window is skipped
TooShort(s, e) == e - s < MinClipSeconds * Scale

\* line 236
ProgressPercent(k, n) == ((k + 1) * 100) \div n

\* ---- outcomes of the environment ----
FFmpegOutcomes == {"missing", "ok", "failed", "timeout"}
\* check_ffmpeg spawns `ffmpeg -version` unless shutil.which finds nothing
FFmpegSpawns(o) == o # "missing"
ProbeFailures == {"missing", "nonzero", "timeout"}
EncodeFailures == {"nonzero", "small"}
Durations == 0 .. MaxDSec * Scale
\* r_frame_rate of the first video stream, "num/den" as <<num, den>>
FrameRates == {<<30, 1>>, <<30, 0>>, <<0, 0>>}
Answer(d, fr) == [answered |-> TRUE, duration |-> d, num |-> fr[1], den |-> fr[2]]
NoAnswer == [answered |-> FALSE, duration |-> 0, num |-> 0, den |-> 1]

\* line 76: eval("num/den") raises ZeroDivisionError, caught at line 80
EvalRaises(fr) == fr[2] = 0

Init ==
    /\ pc = "idle"
    /\ via = "none"
    /\ clip_duration \in MinDurationSpin .. MaxL
    /\ num_clips \in MinClipsSpin .. MaxN
    /\ overlap \in 0 .. Min(MaxO, MaxOverlapSpin)
    /\ should_stop = FALSE
    /\ total_duration = 0
    /\ actual_clips = 0
    /\ i = 0
    /\ clips_created = 0
    /\ cur = NoWindow
    /\ events = <<>>
    /\ procs = <<>>
    /\ dirCreated = FALSE
    /\ files = {}
    /\ dialogs = <<>>
    /\ stop_at = "never"
    /\ probe_out = NoAnswer
    /\ controls_enabled = TRUE
    /\ ui_seen = 0

\* ---- VideoSplitterApp.start_splitting (an input file and folder chosen) ----

\* lines 609-613: FFmpeg check fails, critical box, return
StartRejectFFmpeg ==
    /\ pc = "idle"
    /\ \E o \in FFmpegOutcomes \ {"ok"} :
          /\ procs' = IF FFmpegSpawns(o)
                      THEN Append(procs, Proc("ffmpeg_version", 0, 0, 0))
                      ELSE procs
          /\ dialogs' = Append(dialogs, "FFmpeg Error")
    /\ pc' = "rejected"
    /\ UNCHANGED <<stop_at, probe_out, uiVars>>
    /\ UNCHANGED <<via, workerVars, should_stop, total_duration, actual_clips,
                   i, clips_created, cur, events, dirCreated, files>>

\* lines 609-626: FFmpeg check passes, overlap >= clip_duration, warning, return
StartRejectOverlap ==
    /\ pc = "idle"
    /\ overlap >= clip_duration
    /\ procs' = Append(procs, Proc("ffmpeg_version", 0, 0, 0))
    /\ dialogs' = Append(dialogs, "Invalid Overlap")
    /\ pc' = "rejected"
    /\ UNCHANGED <<stop_at, probe_out, uiVars>>
    /\ UNCHANGED <<via, workerVars, should_stop, total_duration, actual_clips,
                   i, clips_created, cur, events, dirCreated, files>>

\* lines 609-665: all checks pass, the worker is constructed and started
StartAccepted ==
    /\ pc = "idle"
    /\ ~(overlap >= clip_duration)
    /\ procs' = Append(procs, Proc("ffmpeg_version", 0, 0, 0))
    /\ via' = "ui"
    /\ pc' = "check"
    /\ controls_enabled' = FALSE
    /\ UNCHANGED <<stop_at, probe_out, ui_seen>>
    /\ UNCHANGED <<workerVars, should_stop, total_duration, actual_clips,
                   i, clips_created, cur, events, dirCreated, files, dialogs>>

\* SplitWorker(...) constructed with the same values and run without the
\* front-end: lines 94-104, no validation
RunDirect ==
    /\ pc = "idle"
    /\ via' = "direct"
    /\ pc' = "check"
    /\ UNCHANGED <<stop_at, probe_out, uiVars>>
    /\ UNCHANGED <<workerVars, should_stop, total_duration, actual_clips,
                   i, clips_created, cur, events, procs, dirCreated, files,
                   dialogs>>

\* SplitWorker.stop, lines 106-107, called from outside the worker thread
Stop ==
    /\ pc \in {"check", "probe", "plan", "loop", "encoding", "final"}
    /\ ~should_stop
    /\ should_stop' = TRUE
    /\ stop_at' = pc
    /\ UNCHANGED <<probe_out, uiVars>>
    /\ UNCHANGED <<pc, via, workerVars, total_duration, actual_clips, i,
                   clips_created, cur, events, procs, dirCreated, files,
                   dialogs>>

\* lines 628-640: less than 1 GB free and the user answers No
StartDeclinedLowDisk ==
    /\ pc = "idle"
    /\ ~(overlap >= clip_duration)
    /\ procs' = Append(procs, Proc("ffmpeg_version", 0, 0, 0))
    /\ dialogs' = Append(dialogs, "Low Disk Space")
    /\ pc' = "rejected"
    /\ UNCHANGED <<stop_at, probe_out, uiVars>>
    /\ UNCHANGED <<via, workerVars, should_stop, total_duration, actual_clips,
                   i, clips_created, cur, events, dirCreated, files>>

\* ---- SplitWorker.run ----

\* lines 111-115: FFmpeg validation fails
CheckFFmpegFail ==
    /\ pc = "check"
    /\ \E o \in FFmpegOutcomes \ {"ok"} :
          procs' = IF FFmpegSpawns(o)
                   THEN Append(procs, Proc("ffmpeg_version", 0, 0, 0))
                   ELSE procs
    /\ events' = Append(events, Ev("error", "ffmpeg", 0))
    /\ pc' = "done"
    /\ UNCHANGED <<stop_at, probe_out, uiVars>>
    /\ UNCHANGED <<via, workerVars, should_stop, total_duration, actual_clips,
                   i, clips_created, cur, dirCreated, files, dialogs>>

\* lines 111-117
CheckFFmpegOk ==
    /\ pc = "check"
    /\ procs' = Append(procs, Proc("ffmpeg_version", 0, 0, 0))
    /\ events' = Append(events, Ev("status", "analyzing", 0))
    /\ pc' = "probe"
    /\ UNCHANGED <<stop_at, probe_out, uiVars>>
    /\ UNCHANGED <<via, workerVars, should_stop, total_duration, actual_clips,
                   i, clips_created, cur, dirCreated, files, dialogs>>

\* lines 120-123 with get_video_info (lines 42-82) returning None
ProbeFail ==
    /\ pc = "probe"
    /\ \E o \in ProbeFailures :
          procs' = IF o = "missing" THEN procs
                   ELSE Append(procs, Proc("ffprobe", 0, 0, 0))
    /\ events' = Append(events, Ev("error", "probe", 0))
    /\ pc' = "done"
    /\ UNCHANGED <<stop_at, probe_out, uiVars>>
    /\ UNCHANGED <<via, workerVars, should_stop, total_duration, actual_clips,
                   i, clips_created, cur, dirCreated, files, dialogs>>

\* lines 120-123 with get_video_info raising inside eval (line 76) and
\* returning None from its except branch (lines 80-82)
ProbeFpsError ==
    /\ pc = "probe"
    /\ \E d \in Durations, fr \in FrameRates :
          /\ EvalRaises(fr)
          /\ probe_out' = Answer(d, fr)
    /\ procs' = Append(procs, Proc("ffprobe", 0, 0, 0))
    /\ events' = Append(events, Ev("error", "probe", 0))
    /\ pc' = "done"
    /\ UNCHANGED <<stop_at, uiVars>>
    /\ UNCHANGED <<via, workerVars, should_stop, total_duration, actual_clips,
                   i, clips_created, cur, dirCreated, files, dialogs>>

\* lines 120-128: the probe answers with duration <= 0
ProbeBadDuration ==
    /\ pc = "probe"
    /\ procs' = Append(procs, Proc("ffprobe", 0, 0, 0))
    /\ total_duration' = 0
    /\ \E fr \in FrameRates :
          /\ ~EvalRaises(fr)
          /\ probe_out' = Answer(0, fr)
    /\ events' = Append(events, Ev("error", "duration", 0))
    /\ pc' = "done"
    /\ UNCHANGED <<stop_at, uiVars>>
    /\ UNCHANGED <<via, workerVars, should_stop, actual_clips,
                   i, clips_created, cur, dirCreated, files, dialogs>>

\* lines 120-131: the probe answers with duration d > 0
ProbeOk ==
    /\ pc = "probe"
    /\ \E d \in Durations \ {0}, fr \in FrameRates :
          /\ ~EvalRaises(fr)
          /\ probe_out' = Answer(d, fr)
          /\ total_duration' = d
          /\ events' = Append(events, Ev("status", "video", d))
    /\ procs' = Append(procs, Proc("ffprobe", 0, 0, 0))
    /\ pc' = "plan"
    /\ UNCHANGED <<stop_at, uiVars>>
    /\ UNCHANGED <<via, workerVars, should_stop, actual_clips,
                   i, clips_created, cur, dirCreated, files, dialogs>>

\* line 134 raises OSError, caught at lines 247-249
MakeDirFail ==
    /\ pc = "plan"
    /\ events' = Append(events, Ev("error", "unexpected", 0))
    /\ pc' = "done"
    /\ UNCHANGED <<stop_at, probe_out, uiVars>>
    /\ UNCHANGED <<via, workerVars, should_stop, total_duration, actual_clips,
                   i, clips_created, cur, procs, dirCreated, files, dialogs>>

\* lines 134-140: clip_duration - overlap = 0, ZeroDivisionError,
\* caught at lines 247-249
PlanDivZero ==
    /\ pc = "plan"
    /\ overlap > 0
    /\ clip_duration - overlap = 0
    /\ dirCreated' = TRUE
    /\ events' = Append(events, Ev("error", "unexpected", 0))
    /\ pc' = "done"
    /\ UNCHANGED <<stop_at, probe_out, uiVars>>
    /\ UNCHANGED <<via, workerVars, should_stop, total_duration, actual_clips,
                   i, clips_created, cur, procs, files, dialogs>>

\* lines 134-149: actual_clips == 0
PlanTooShort ==
    /\ pc = "plan"
    /\ ~(overlap > 0 /\ clip_duration - overlap = 0)
    /\ ActualClips(total_duration, clip_duration, num_clips, overlap) = 0
    /\ dirCreated' = TRUE
    /\ actual_clips' = 0
    /\ events' = Append(events, Ev("error", "too_short", 0))
    /\ pc' = "done"
    /\ UNCHANGED <<stop_at, probe_out, uiVars>>
    /\ UNCHANGED <<via, workerVars, should_stop, total_duration,
                   i, clips_created, cur, procs, files, dialogs>>

\* lines 134-153
PlanOk ==
    /\ pc = "plan"
    /\ ~(overlap > 0 /\ clip_duration - overlap = 0)
    /\ ActualClips(total_duration, clip_duration, num_clips, overlap) # 0
    /\ dirCreated' = TRUE
    /\ actual_clips' =
          ActualClips(total_duration, clip_duration, num_clips, overlap)
    /\ events' = Append(events, Ev("status", "creating", actual_clips'))
    /\ clips_created' = 0
    /\ i' = 0
    /\ pc' = "loop"
    /\ UNCHANGED <<stop_at, probe_out, uiVars>>
    /\ UNCHANGED <<via, workerVars, should_stop, total_duration,
                   cur, procs, files, dialogs>>

\* line 154: range(actual_clips) is exhausted
LoopExhausted ==
    /\ pc = "loop"
    /\ ~(i < actual_clips)
    /\ pc' = "final"
    /\ UNCHANGED <<stop_at, probe_out, uiVars>>
    /\ UNCHANGED <<via, workerVars, should_stop, total_duration, actual_clips,
                   i, clips_created, cur, events, procs, dirCreated, files,
                   dialogs>>

\* lines 155-157: the stop flag is seen set before clip i+1
LoopStopObserved ==
    /\ pc = "loop"
    /\ i < actual_clips
    /\ should_stop
    /\ events' = Append(events, Ev("status", "stopping", 0))
    /\ pc' = "final"
    /\ UNCHANGED <<stop_at, probe_out, uiVars>>
    /\ UNCHANGED <<via, workerVars, should_stop, total_duration, actual_clips,
                   i, clips_created, cur, procs, dirCreated, files, dialogs>>

\* lines 159-168: start >= total_duration, break
LoopPastEnd ==
    /\ pc = "loop"
    /\ i < actual_clips
    /\ ~should_stop
    /\ ClipStart(i, clip_duration, overlap) >= total_duration
    /\ pc' = "final"
    /\ UNCHANGED <<stop_at, probe_out, uiVars>>
    /\ UNCHANGED <<via, workerVars, should_stop, total_duration, actual_clips,
                   i, clips_created, cur, events, procs, dirCreated, files,
                   dialogs>>

\* lines 159-172: window shorter than one second, continue
LoopSkipShort ==
    /\ pc = "loop"
    /\ i < actual_clips
    /\ ~should_stop
    /\ LET start == ClipStart(i, clip_duration, overlap)
           end == ClipEnd(start, clip_duration, total_duration)
       IN  /\ ~(start >= total_duration)
           /\ TooShort(start, end)
    /\ i' = i + 1
    /\ UNCHANGED <<stop_at, probe_out, uiVars>>
    /\ UNCHANGED <<pc, via, workerVars, should_stop, total_duration,
                   actual_clips, clips_created, cur, events, procs,
                   dirCreated, files, dialogs>>

\* lines 159-215: the transcoder is started for clip i+1
LoopSpawn ==
    /\ pc = "loop"
    /\ i < actual_clips
    /\ ~should_stop
    /\ LET start == ClipStart(i, clip_duration, overlap)
           end == ClipEnd(start, clip_duration, total_duration)
       IN  /\ ~(start >= total_duration)
           /\ ~TooShort(start, end)
           /\ cur' = [index |-> i + 1, start |-> start, end |-> end]
           /\ events' = Append(events, Ev("status", "processing", i + 1))
           /\ procs' = Append(procs, Proc("transcode", i + 1, start, end))
    /\ pc' = "encoding"
    /\ UNCHANGED <<stop_at, probe_out, uiVars>>
    /\ UNCHANGED <<via, workerVars, should_stop, total_duration, actual_clips,
                   i, clips_created, dirCreated, files, dialogs>>

\* lines 215-224, 235-237: exit code 0 and the output is larger than 1 KiB
EncodeOk ==
    /\ pc = "encoding"
    /\ clips_created' = clips_created + 1
    /\ files' = files \cup {i + 1}
    /\ events' = events \o <<Ev("clip_completed", "file", i + 1),
                             Ev("progress", "percent",
                                ProgressPercent(i, actual_clips))>>
    /\ i' = i + 1
    /\ cur' = NoWindow
    /\ pc' = "loop"
    /\ UNCHANGED <<stop_at, probe_out, uiVars>>
    /\ UNCHANGED <<via, workerVars, should_stop, total_duration, actual_clips,
                   procs, dirCreated, dialogs>>

\* EncodeFail without the break of line 233: the loop goes on to the next
\* clip; tests C5_FailFast
EncodeFail_continue ==
    /\ pc = "encoding"
    /\ \E o \in EncodeFailures :
          events' = Append(events, Ev("error", "clip_failed", i + 1))
    /\ i' = i + 1
    /\ cur' = NoWindow
    /\ pc' = "loop"
    /\ UNCHANGED <<stop_at, probe_out, uiVars>>
    /\ UNCHANGED <<via, workerVars, should_stop, total_duration, actual_clips,
                   clips_created, procs, dirCreated, files, dialogs>>

\* lines 217-218, 225-226, 231-233: non-zero exit, or output missing or
\* at most 1 KiB; error and break
EncodeFail ==
    /\ pc = "encoding"
    /\ \E o \in EncodeFailures :
          events' = Append(events, Ev("error", "clip_failed", i + 1))
    /\ cur' = NoWindow
    /\ pc' = "final"
    /\ UNCHANGED <<stop_at, probe_out, uiVars>>
    /\ UNCHANGED <<via, workerVars, should_stop, total_duration, actual_clips,
                   i, clips_created, procs, dirCreated, files, dialogs>>

\* lines 215, 228-230: the 300 s wait expires; error and break
EncodeTimeout ==
    /\ pc = "encoding"
    /\ events' = Append(events, Ev("error", "timeout", i + 1))
    /\ cur' = NoWindow
    /\ pc' = "final"
    /\ UNCHANGED <<stop_at, probe_out, uiVars>>
    /\ UNCHANGED <<via, workerVars, should_stop, total_duration, actual_clips,
                   i, clips_created, procs, dirCreated, files, dialogs>>

\* lines 239-241
FinalCompleted ==
    /\ pc = "final"
    /\ ~should_stop /\ clips_created > 0
    /\ events' = events \o <<Ev("status", "success", clips_created),
                             Ev("finished", "output_dir", clips_created)>>
    /\ pc' = "done"
    /\ UNCHANGED <<stop_at, probe_out, uiVars>>
    /\ UNCHANGED <<via, workerVars, should_stop, total_duration, actual_clips,
                   i, clips_created, cur, procs, dirCreated, files, dialogs>>

\* lines 242-243
FinalNoClips ==
    /\ pc = "final"
    /\ ~(~should_stop /\ clips_created > 0)
    /\ clips_created = 0
    /\ events' = Append(events, Ev("error", "no_clips", 0))
    /\ pc' = "done"
    /\ UNCHANGED <<stop_at, probe_out, uiVars>>
    /\ UNCHANGED <<via, workerVars, should_stop, total_duration, actual_clips,
                   i, clips_created, cur, procs, dirCreated, files, dialogs>>

\* lines 244-245
FinalStopped ==
    /\ pc = "final"
    /\ ~(~should_stop /\ clips_created > 0)
    /\ ~(clips_created = 0)
    /\ events' = Append(events, Ev("status", "stopped", clips_created))
    /\ pc' = "done"
    /\ UNCHANGED <<stop_at, probe_out, uiVars>>
    /\ UNCHANGED <<via, workerVars, should_stop, total_duration, actual_clips,
                   i, clips_created, cur, procs, dirCreated, files, dialogs>>

\* ---- slots of VideoSplitterApp, run in the GUI thread for each signal ----

\* lines 684-698: on_finished
OnFinished ==
    /\ via = "ui"
    /\ ui_seen < Len(events)
    /\ events[ui_seen + 1].type = "finished"
    /\ controls_enabled' = TRUE
    /\ ui_seen' = ui_seen + 1
    /\ UNCHANGED <<pc, via, workerVars, should_stop, total_duration,
                   actual_clips, i, clips_created, cur, events, procs,
                   dirCreated, files, dialogs, stop_at, probe_out>>

\* lines 700-706: on_error
OnError ==
    /\ via = "ui"
    /\ ui_seen < Len(events)
    /\ events[ui_seen + 1].type = "error"
    /\ controls_enabled' = TRUE
    /\ ui_seen' = ui_seen + 1
    /\ UNCHANGED <<pc, via, workerVars, should_stop, total_duration,
                   actual_clips, i, clips_created, cur, events, procs,
                   dirCreated, files, dialogs, stop_at, probe_out>>

\* lines 657, 708-715: progress_bar.setValue, on_status_update,
\* on_clip_completed leave the controls alone
OnOtherSignal ==
    /\ via = "ui"
    /\ ui_seen < Len(events)
    /\ events[ui_seen + 1].type \in {"progress", "status", "clip_completed"}
    /\ ui_seen' = ui_seen + 1
    /\ UNCHANGED <<pc, via, workerVars, should_stop, total_duration,
                   actual_clips, i, clips_created, cur, events, procs,
                   dirCreated, files, dialogs, stop_at, probe_out,
                   controls_enabled>>

Next ==
    \/ StartRejectFFmpeg
    \/ StartRejectOverlap
    \/ StartDeclinedLowDisk
    \/ StartAccepted
    \/ RunDirect
    \/ Stop
    \/ CheckFFmpegFail
    \/ CheckFFmpegOk
    \/ ProbeFail
    \/ ProbeFpsError
    \/ ProbeBadDuration
    \/ ProbeOk
    \/ MakeDirFail
    \/ PlanDivZero
    \/ PlanTooShort
    \/ PlanOk
    \/ LoopExhausted
    \/ LoopStopObserved
    \/ LoopPastEnd
    \/ LoopSkipShort
    \/ LoopSpawn
    \/ EncodeOk
    \/ EncodeFail
    \/ EncodeTimeout
    \/ FinalCompleted
    \/ FinalNoClips
    \/ FinalStopped
    \/ OnFinished
    \/ OnError
    \/ OnOtherSignal

Spec == Init /\ [][Next]_vars

\* ---- observations on the logs ----
Transcodes == SelectSeq(procs, LAMBDA p : p.cmd = "transcode")
EventsOf(t) == SelectSeq(events, LAMBDA e : e.type = t)
NumFinished == Len(EventsOf("finished"))
NumError == Len(EventsOf("error"))
HasEvent(t, m) ==
    \E k \in 1 .. Len(events) : events[k].type = t /\ events[k].msg = m
IsEncodeError(e) == e.type = "error" /\ e.msg \in {"clip_failed", "timeout"}
EncodeFailed == \E k \in 1 .. Len(events) : IsEncodeError(events[k])
StopObserved == HasEvent("status", "stopping")
\* no transcoder was started after position k of the event log
\* (line 176 emits "processing" right before each call of line 215)
NoProcessingAfter(k) ==
    \A m \in (k + 1) .. Len(events) :
        ~(events[m].type = "status" /\ events[m].msg = "processing")
\* the plan was computed and the clip loop entered
LoopEntered == HasEvent("status", "creating")
\* the loop ran with no encode failure and without seeing the stop flag
CleanRun == LoopEntered /\ ~EncodeFailed /\ ~StopObserved
Ceil(a, b) == (a + b - 1) \div b
MinTicks == MinClipSeconds * Scale

\* C1: a job in which some clip's encode fails ends Failed and never emits
\* `finished`; `finished` is emitted only after a loop with no encode
\* failure, no cancellation and at least one successful clip.
C1_FailedJobNeverFinished ==
    /\ (pc = "done" /\ EncodeFailed) => (NumFinished = 0 /\ NumError >= 1)
    /\ NumFinished > 0 =>
          (~EncodeFailed /\ ~StopObserved /\ clips_created > 0)

\* C2: a finished job has emitted exactly one terminal event: one `finished`
\* and no `error`, or one `error` and no `finished`, or (cancelled) the
\* "stopped" status and neither.
C2_ExactlyOneTerminalEvent ==
    pc = "done" =>
        \/ NumFinished = 1 /\ NumError = 0
        \/ NumFinished = 0 /\ NumError = 1
        \/ NumFinished = 0 /\ NumError = 0 /\ HasEvent("status", "stopped")

\* C3: once the stop flag is seen at the loop check, the loop is left, no
\* transcoder is started any more, and the job ends Cancelled (the "stopped"
\* status, no `error`, no `finished`) reporting the clips that succeeded.
C3_StopObservedEndsCancelled ==
    StopObserved =>
        /\ pc \in {"final", "done"}
        /\ \A k \in 1 .. Len(events) :
              (events[k].type = "status" /\ events[k].msg = "stopping")
                  => NoProcessingAfter(k)
        /\ clips_created = Len(EventsOf("clip_completed"))
        /\ pc = "done" =>
              /\ \E k \in 1 .. Len(events) :
                    events[k] = Ev("status", "stopped", clips_created)
              /\ NumError = 0
              /\ NumFinished = 0

\* C4: a job that stopped because the stop flag was seen, with no encode
\* failure, emits no `error` event, also when no clip had been created.
C4_CancellationIsNoError ==
    (pc = "done" /\ StopObserved /\ ~EncodeFailed) => NumError = 0

\* C5: fail-fast.  Each clip is handed to the transcoder at most once; after
\* the first encode failure the loop is left, the failed clip is the last
\* one ever started, and clips_created counts the clips that succeeded
\* before it.
C5_FailFast ==
    /\ \A a, b \in 1 .. Len(Transcodes) :
          a < b => Transcodes[a].index < Transcodes[b].index
    /\ EncodeFailed =>
          /\ pc \in {"final", "done"}
          /\ \A k \in 1 .. Len(events) :
                IsEncodeError(events[k]) =>
                    /\ NoProcessingAfter(k)
                    /\ events[k].val = Transcodes[Len(Transcodes)].index
          /\ Len(SelectSeq(events, IsEncodeError)) = 1
          /\ clips_created = Len(Transcodes) - 1
          /\ clips_created = Len(EventsOf("clip_completed"))
          /\ clips_created = Cardinality(files)

\* C5 witness: the third of five planned clips failed after two successes
C5_Witness ==
    /\ pc = "done"
    /\ actual_clips = 5
    /\ HasEvent("error", "clip_failed")
    /\ Len(Transcodes) = 3
    /\ Transcodes[3].index = 3
    /\ clips_created = 2

\* C6 (as stated): with overlap 0, a run in which nothing fails or cancels
\* (here: one that ends with `finished` and no `error`) hands exactly
\* min(N, ceil(D/L)) clips to the transcoder, clip k (0-based) spanning
\* [k*L, min((k+1)*L, D)).
C6_EncodedCountIsMinCeil ==
    (pc = "done" /\ overlap = 0 /\ CleanRun /\ NumError = 0) =>
        /\ Len(Transcodes) =
              Min(num_clips, Ceil(total_duration, clip_duration * Scale))
        /\ \A a \in 1 .. Len(Transcodes) :
              LET k == Transcodes[a].index - 1
              IN  /\ Transcodes[a].start = k * clip_duration * Scale
                  /\ Transcodes[a].end =
                        Min((k + 1) * clip_duration * Scale, total_duration)

\* C6 (amended): with overlap 0 the candidate count actual_clips is
\* min(N, ceil(D/L)); every clip handed to the transcoder at 0-based
\* position k spans [k*L, min((k+1)*L, D)); and in a run in which nothing
\* fails or cancels the positions handed over are exactly the k below
\* min(N, ceil(D/L)) whose window is at least one second long, that is all
\* of them except a final remainder shorter than one second.
C6_NoOverlapPlan ==
    (overlap = 0 /\ LoopEntered) =>
        LET LS == clip_duration * Scale
            c == Min(num_clips, Ceil(total_duration, LS))
            short == IF /\ num_clips >= Ceil(total_duration, LS)
                        /\ total_duration - (c - 1) * LS < MinTicks
                     THEN 1 ELSE 0
        IN  /\ actual_clips = c
            /\ \A a \in 1 .. Len(Transcodes) :
                  LET k == Transcodes[a].index - 1
                  IN  /\ Transcodes[a].start = k * LS
                      /\ Transcodes[a].end = Min((k + 1) * LS, total_duration)
            /\ (pc = "done" /\ CleanRun) =>
                  /\ {Transcodes[a].index : a \in 1 .. Len(Transcodes)} =
                        {k + 1 : k \in {j \in 0 .. c - 1 :
                            Min((j + 1) * LS, total_duration) - j * LS
                                >= MinTicks}}
                  /\ Len(Transcodes) = c - short

\* C6 witness: a clean run without overlap whose last window was a remainder
\* under one second, after two encoded clips
C6_Witness ==
    /\ pc = "done"
    /\ overlap = 0
    /\ CleanRun
    /\ Len(Transcodes) = 2
    /\ actual_clips = 3
    /\ num_clips > 3

\* C7: with 0 < O < L the candidate count is min(N, floor((D+O)/(L-O)));
\* the clip at 0-based position k starts at k*(L-O) and ends at
\* min(start+L, D); no clip with start >= D is handed to the transcoder and
\* the loop stops at the first such k; no two clips share a start.
C7_OverlapPlan ==
    (0 < overlap /\ overlap < clip_duration /\ pc \in {"loop", "encoding", "final", "done"}
        /\ (pc = "done" => (LoopEntered \/ HasEvent("error", "too_short")))) =>
        LET stride == (clip_duration - overlap) * Scale
            a == total_duration + overlap * Scale
            firstPast == Ceil(total_duration, stride)
        IN  /\ IF num_clips * stride <= a
               THEN actual_clips = num_clips
               ELSE /\ actual_clips * stride <= a
                    /\ a < (actual_clips + 1) * stride
            /\ \A x \in 1 .. Len(Transcodes) :
                  LET p == Transcodes[x]
                  IN  /\ p.start = (p.index - 1) * stride
                      /\ p.end = Min(p.start + clip_duration * Scale,
                                     total_duration)
                      /\ p.start < total_duration
            /\ \A x, y \in 1 .. Len(Transcodes) :
                  x # y => Transcodes[x].start # Transcodes[y].start
            /\ (CleanRun /\ pc \in {"final", "done"}) =>
                  i = Min(actual_clips, firstPast)

\* C7 witness: a clean run with overlap that stopped at the first position
\* whose start lies at or beyond the end of the source
C7_Witness ==
    /\ pc = "done"
    /\ 0 < overlap /\ overlap < clip_duration
    /\ CleanRun
    /\ i < actual_clips
    /\ ClipStart(i, clip_duration, overlap) >= total_duration
    /\ Len(Transcodes) >= 2

\* C8: every window handed to the transcoder satisfies
\* 0 <= start < end <= duration and lasts at least one second; the clips
\* handed over are strictly increasing in index and in start; and their
\* number never exceeds the requested clip count.
C8_WindowInvariants ==
    /\ \A a \in 1 .. Len(Transcodes) :
          LET p == Transcodes[a]
          IN  /\ 0 <= p.start
              /\ p.start < p.end
              /\ p.end <= total_duration
              /\ p.end - p.start >= MinTicks
              /\ p.index >= 1
    /\ \A a, b \in 1 .. Len(Transcodes) :
          a < b => /\ Transcodes[a].index < Transcodes[b].index
                   /\ Transcodes[a].start < Transcodes[b].start
    /\ Len(Transcodes) <= num_clips

\* C8 witness: a finished run in which a window shorter than one second was
\* dropped after at least one clip had been encoded
C8_Witness ==
    /\ pc = "done"
    /\ CleanRun
    /\ Len(Transcodes) >= 1
    /\ \E k \in 0 .. actual_clips - 1 :
          LET s == ClipStart(k, clip_duration, overlap)
          IN  /\ s < total_duration
              /\ ClipEnd(s, clip_duration, total_duration) - s < MinTicks
              /\ \A a \in 1 .. Len(Transcodes) : Transcodes[a].index # k + 1

\* C9: when the source is shorter than the requested clip length (no
\* overlap and a source of at least one second, as in D=5s, L=30s, N=1),
\* planning is reached and the job is not cancelled (nor does an encode
\* fail), the job ends with the "video too short" error, no transcoder call
\* and no clip.
C9_ShortSourceIsTooShort ==
    (pc = "done" /\ overlap = 0 /\ HasEvent("status", "video")
        /\ ~HasEvent("error", "unexpected")
        /\ ~StopObserved /\ ~EncodeFailed
        /\ total_duration >= MinTicks
        /\ total_duration < clip_duration * Scale) =>
        /\ HasEvent("error", "too_short")
        /\ Len(Transcodes) = 0
        /\ clips_created = 0
        /\ files = {}

\* C10: a request with overlap >= clip length (FFmpeg being available) never
\* spawns a subprocess nor creates the output directory, through
\* start_splitting and through SplitWorker.run alike, and ends rejected
\* with a configuration error.
C10_BadOverlapRejectedFirst ==
    (overlap >= clip_duration /\ pc # "idle"
        /\ ~HasEvent("error", "ffmpeg")
        /\ \A k \in 1 .. Len(dialogs) : dialogs[k] # "FFmpeg Error") =>
        /\ procs = <<>>
        /\ ~dirCreated
        /\ pc \in {"done", "rejected"} =>
              \/ \E k \in 1 .. Len(dialogs) : dialogs[k] = "Invalid Overlap"
              \/ HasEvent("error", "config")

\* a job that failed before the clip loop: FFmpeg or probe failure,
\* non-positive duration, or an empty plan
FailedBeforeEncoding ==
    \/ HasEvent("error", "ffmpeg")
    \/ HasEvent("error", "probe")
    \/ HasEvent("error", "duration")
    \/ HasEvent("error", "too_short")

\* C11: a job that fails before encoding starts leaves no partial output:
\* no transcoder call, no clip file, and the output directory not created.
C11_NoPartialOutputBeforeEncoding ==
    (pc = "done" /\ FailedBeforeEncoding) =>
        /\ Len(Transcodes) = 0
        /\ files = {}
        /\ ~dirCreated

\* C12: Cancelled is reached only through the loop check.  When stop() is
\* called while the last planned clip's transcoder call is in flight, so
\* that no loop check sees the flag, and every planned clip succeeds, the
\* job ends Completed: `finished` is emitted, the "stopped" status is not.
C12_LateStopStillCompletes ==
    (pc = "done" /\ stop_at = "encoding" /\ ~StopObserved /\ ~EncodeFailed
        /\ LoopEntered /\ clips_created > 0) =>
        /\ NumFinished = 1
        /\ ~HasEvent("status", "stopped")

\* C13: a progress event follows every attempted clip, successful or
\* failed, the k-th carrying (k / actual_clips) * 100; the progress values
\* never decrease and stay within 0..100; the clip-completed numbers are
\* strictly increasing.
C13_ProgressAfterEveryAttempt ==
    LET prog == EventsOf("progress")
        comp == EventsOf("clip_completed")
    IN  /\ pc \in {"loop", "final", "done"} => Len(prog) = Len(Transcodes)
        /\ \A k \in 1 .. Len(prog) :
              /\ prog[k].val = (k * 100) \div actual_clips
              /\ 0 <= prog[k].val /\ prog[k].val <= 100
        /\ \A a, b \in 1 .. Len(prog) : a < b => prog[a].val <= prog[b].val
        /\ \A a, b \in 1 .. Len(comp) : a < b => comp[a].val < comp[b].val

\* C14: when ffprobe answers with a frame rate "num/den" whose den is 0
\* (and a positive duration), the probe succeeds with the duration intact
\* and the job goes on to planning instead of failing with a probe error.
C14_ZeroDenominatorProbeSucceeds ==
    (probe_out.answered /\ probe_out.den = 0 /\ probe_out.duration > 0) =>
        /\ ~HasEvent("error", "probe")
        /\ total_duration = probe_out.duration
        /\ HasEvent("status", "video")

\* the worker has ended and the front-end has handled every signal it sent:
\* nothing further can happen to the job
JobQuiescent == via = "ui" /\ pc = "done" /\ ui_seen = Len(events)

\* C15: after start_splitting disabled the controls and started a worker,
\* every way the worker ends (completed, failed, or stopped by the user
\* after at least one clip) leads to set_controls_enabled(True): once the
\* worker has ended and all its signals are handled, the controls are
\* enabled again.
C15_ControlsReenabledAfterJob ==
    JobQuiescent => controls_enabled

\* tick t of the source lies in some window handed to the transcoder
Covered(t) ==
    \E a \in 1 .. Len(Transcodes) :
        Transcodes[a].start <= t /\ t < Transcodes[a].end

\* the requested count does not limit the plan: asking for one clip more
\* would not add a candidate (lines 139, 145)
CountNotLimiting ==
    ActualClips(total_duration, clip_duration, num_clips + 1, overlap)
        <= num_clips

\* C16: when the requested count is not the limiting factor and nothing
\* fails or cancels, the windows handed to the transcoder cover the whole
\* source except possibly a final remainder shorter than one second, with
\* and without overlap (overlap < clip length).
C16_WindowsCoverSource ==
    (pc = "done" /\ CleanRun /\ overlap < clip_duration /\ CountNotLimiting) =>
        \A t \in 0 .. total_duration - MinTicks : Covered(t)

====
